---- MODULE Spec2Model ----
(***************************************************************************)
(* X.com scraper (src/x_scraper.py): the credential store                  *)
(* (normalize_cookies, load_cookies), the navigator (robust_navigation),   *)
(* the element resolvers (wait_and_fill_input, click_button), the login    *)
(* run (login_and_save_cookies) and the extraction run (scrape_tweets).    *)
(*                                                                         *)
(* Strings whose characters the code inspects (cookie domains, tweet       *)
(* texts) are sequences of one-character strings.  A Python dict is a      *)
(* function whose DOMAIN is the set of keys present.  What the browser     *)
(* shows or raises is the environment's choice, drawn with \E.             *)
(***************************************************************************)
EXTENDS Integers, Sequences, FiniteSets, TLC

VARIABLES
    cookieFile,      \* x_cookies.json on disk: [kind, jar]
    cookies,         \* what load_cookies returned: [absent, jar]
    contextCookies,  \* the cookies added to the browsing context
    renorm,          \* normalize_cookies applied to its own output: [done, jar]
    spc,             \* position of the extraction run (scrape_tweets)
    max_scrolls,     \* scrape_tweets' max_scrolls argument
    feed,            \* what the search page renders, cycle by cycle
    page,            \* what the page showed to a signal check
    mpc,             \* main's position
    args,            \* the parsed command line
    exitStatus,      \* the process's exit status
    browser,         \* "none", "open" or "closed"
    closes,          \* history: browser.close() calls since the browser was launched
    exitKind,        \* how the try block was left: "none", "return_empty", "fallthrough"
    auth,            \* what test_authentication returned: "unknown", "true", "false"
    navUrl,          \* robust_navigation: the url being navigated to
    navAttempt,      \* robust_navigation: attempt (0-based)
    navStrat,        \* robust_navigation: index i of the strategy tried next
    navLog,          \* robust_navigation: the page.goto calls made, in order
    navResult,       \* robust_navigation: "idle", "running", "true", "false", "raised"
    all_data,        \* the accepted items, in order
    seen_tweets,     \* hashes of the accepted texts
    consecutive_no_new_tweets,
    scroll_count,    \* index of the current scroll cycle (0-based)
    current_count,   \* articles.count() read at line 462
    article_i,       \* index i of the article processed next
    new_tweets_count,
    retval,          \* what scrape_tweets returned: [returned, items]
    outputFile,      \* the output file: [writes, items]
    accepted,        \* history: every item appended, in acceptance order
    zeroRun,         \* history: consecutive zero-container cycles just completed
    noNewRun,        \* history: consecutive no-new-item cycles just completed
    stallRun,        \* history: cycles in a row, up to now, that accepted nothing
    halt,            \* history: why the loop ended
    wheels,          \* history: scroll gestures made
    resolves,        \* history: container resolutions made
    last,            \* history: outcome of the article processed last in this cycle
    probe,           \* history: how the selector loop of this cycle ended
    lpc,             \* position of the login run (login_and_save_cookies)
    resRole,         \* resolver running: "none", "fill", "click"
    resIdx,          \* resolver: index of the selector tried next (0-based)
    resLog,          \* resolver: the selectors tried, in order, with what happened
    resResult,       \* resolver: "idle", "running", "true", "false"
    verified,        \* what verify_login_success returned: "unknown", "true", "false"
    loginRet,        \* the value a `return` inside the try block is returning
    loginResult,     \* what login_and_save_cookies returned: "none", "true", "false"
    challenge,       \* history: how the challenge step went
    confirmNavs,     \* history: confirmatory navigations made by verify_login_success
    wrote,           \* history: the credential file write: "no", "ok", "partial"
    file0,            \* history: the credential file as the run found it
    steps            \* the login steps finished so far, with their results

credVars == <<cookieFile, cookies, contextCookies, renorm>>
navVars == <<navUrl, navAttempt, navStrat, navLog, navResult>>
loopVars == <<all_data, seen_tweets, consecutive_no_new_tweets, scroll_count,
              current_count, article_i, new_tweets_count>>
histVars == <<accepted, zeroRun, noNewRun, stallRun, halt, wheels, resolves, last, probe>>
mainVars == <<mpc, args, exitStatus>>
runVars == <<spc, max_scrolls, feed, page, mainVars, browser, closes, exitKind, auth, retval, outputFile>>
resVars == <<resRole, resIdx, resLog, resResult>>
loginVars == <<lpc, resVars, verified, loginRet, loginResult, challenge, confirmNavs,
               wrote, file0, steps>>
vars == <<credVars, navVars, loopVars, histVars, runVars, loginVars>>

(***************************************************************************)
(* Bounds of the model.                                                    *)
(***************************************************************************)
MaxCookies == 1        \* longest cookie list drawn for the credential file
MaxScrolls == 4        \* largest max_scrolls argument drawn
MaxArticles == 2       \* most containers a selector resolves in one cycle

(***************************************************************************)
(* Character strings.                                                      *)
(***************************************************************************)
Dot == <<".">>
LegacyHost == <<"t", "w", "i", "t", "t", "e", "r", ".", "c", "o", "m">>
CanonHost == <<"x", ".", "c", "o", "m">>
DefaultDomain == <<".", "x", ".", "c", "o", "m">>

\* str.startswith
StartsWith(s, p) ==
    /\ Len(s) >= Len(p)
    /\ SubSeq(s, 1, Len(p)) = p

\* `p in s` for strings
Contains(s, p) ==
    \E i \in 1..(Len(s) - Len(p) + 1) : SubSeq(s, i, i + Len(p) - 1) = p

\* str.replace(old, new): every non-overlapping occurrence, left to right
RECURSIVE Replace(_, _, _)
Replace(s, old, new) ==
    IF Len(s) < Len(old) THEN s
    ELSE IF SubSeq(s, 1, Len(old)) = old
         THEN new \o Replace(SubSeq(s, Len(old) + 1, Len(s)), old, new)
         ELSE <<Head(s)>> \o Replace(Tail(s), old, new)

\* str.lower() on the sameSite spellings that occur
Lower(s) ==
    CASE s = "Strict" -> "strict"
      [] s = "Lax" -> "lax"
      [] s = "None" -> "none"
      [] OTHER -> s

\* str.capitalize() on the two spellings line 77 applies it to
Capitalize(s) ==
    CASE s = "lax" -> "Lax"
      [] s = "strict" -> "Strict"
      [] OTHER -> s

\* int(x) of a number written [w: whole part, f: tenths]: truncation
PyInt(n) == [w |-> n.w, f |-> 0]

(***************************************************************************)
(* normalize_cookies (lines 48-85).                                        *)
(***************************************************************************)
\* dict.get(key, default)
Get(cookie, key, default) ==
    IF key \in DOMAIN cookie THEN cookie[key] ELSE default

\* bool(cookie.get(key)): a missing key reads None, which is falsy
Truthy(cookie, key) ==
    /\ key \in DOMAIN cookie
    /\ cookie[key] = TRUE

AddLeadingDot_Always(domain) ==
    IF domain # <<>> THEN Dot \o domain ELSE domain

\* lines 54-55
AddLeadingDot(domain) ==
    IF domain # <<>> /\ ~StartsWith(domain, Dot) THEN Dot \o domain ELSE domain

\* lines 58-59
RewriteLegacyHost(domain) ==
    IF Contains(domain, LegacyHost)
    THEN Replace(domain, LegacyHost, CanonHost)
    ELSE domain

\* lines 53-59 and 67
NormDomain(cookie) ==
    LET domain == RewriteLegacyHost(AddLeadingDot(Get(cookie, "domain", <<>>)))
    IN  IF domain # <<>> THEN domain ELSE DefaultDomain

\* line 72
RawSameSite(cookie) == Lower(Get(cookie, "sameSite", ""))

SecureOf_NoForce(cookie) == Get(cookie, "secure", TRUE)

\* lines 65 and 73-75
SecureOf(cookie) ==
    IF RawSameSite(cookie) = "no_restriction" THEN TRUE
    ELSE Get(cookie, "secure", TRUE)

\* lines 68 and 72-77
SameSiteOf(cookie) ==
    LET ss == RawSameSite(cookie)
    IN  IF ss = "no_restriction" THEN "None"
        ELSE IF ss \in {"lax", "strict"} THEN Capitalize(ss)
        ELSE IF Truthy(cookie, "secure") THEN "None" ELSE "Lax"

\* lines 79-82: the optional "expires" entry
ExpiresOf(cookie) ==
    IF "expirationDate" \in DOMAIN cookie
    THEN "expires" :> PyInt(cookie["expirationDate"])
    ELSE IF "expires" \in DOMAIN cookie
         THEN "expires" :> PyInt(cookie["expires"])
         ELSE <<>>

\* lines 61-84: one entry
NormalizeCookie(cookie) ==
    [name |-> cookie["name"],
     value |-> cookie["value"],
     path |-> Get(cookie, "path", "/"),
     secure |-> SecureOf(cookie),
     httpOnly |-> Get(cookie, "httpOnly", FALSE),
     domain |-> NormDomain(cookie),
     sameSite |-> SameSiteOf(cookie)] @@ ExpiresOf(cookie)

\* cookie["name"], cookie["value"] raise KeyError on an entry without them
NormalizeRaises(raw_cookies) ==
    \E i \in 1..Len(raw_cookies) : ~({"name", "value"} \subseteq DOMAIN raw_cookies[i])

normalize_cookies(raw_cookies) ==
    [i \in 1..Len(raw_cookies) |-> NormalizeCookie(raw_cookies[i])]

(***************************************************************************)
(* The raw credential entries the file may hold: every combination of the  *)
(* domain, secure, sameSite and expiry spellings below, each also absent,  *)
(* plus entries carrying path/httpOnly and entries lacking name or value.  *)
(***************************************************************************)
Field(key, opt) ==
    IF opt = {} THEN <<>> ELSE key :> (CHOOSE v \in opt : TRUE)

DomainOpts ==
    {{}, {CanonHost}, {DefaultDomain}, {LegacyHost},
     {<<".", "a", "p", "i", ".">> \o LegacyHost}}

SecureOpts == {{}, {TRUE}, {FALSE}}

SameSiteOpts == {{}, {"no_restriction"}, {"lax"}, {"Strict"}, {"None"}, {"unspecified"}}

ExpirationDateOpts == {{}, {[w |-> 1700, f |-> 5]}}

ExpiresOpts == {{}, {[w |-> -1, f |-> 0]}}

NameValue == [name |-> "auth_token", value |-> "v"]

WellFormedCookies ==
    {NameValue @@ Field("domain", d) @@ Field("secure", s) @@ Field("sameSite", ss)
        @@ Field("expirationDate", e1) @@ Field("expires", e2) :
        d \in DomainOpts, s \in SecureOpts, ss \in SameSiteOpts,
        e1 \in ExpirationDateOpts, e2 \in ExpiresOpts}

ExtraCookies ==
    {NameValue @@ [path |-> "/i", httpOnly |-> TRUE, secure |-> FALSE],
     [name |-> "ct0", domain |-> LegacyHost],
     [value |-> "v", domain |-> CanonHost]}

RawCookies == WellFormedCookies \cup ExtraCookies

RECURSIVE ListsUpTo(_, _)
ListsUpTo(S, n) ==
    IF n = 0 THEN {<<>>}
    ELSE LET shorter == ListsUpTo(S, n - 1)
         IN  shorter \cup {Append(l, c) : l \in shorter, c \in S}

\* the credential file: absent, unparsable, or a JSON list of at most n entries
CredFiles(n) ==
    {[kind |-> "missing", jar |-> <<>>], [kind |-> "corrupt", jar |-> <<>>]}
    \cup {[kind |-> "json", jar |-> l] : l \in ListsUpTo(RawCookies, n)}

Absent == [absent |-> TRUE, jar |-> <<>>]

\* load_cookies (lines 331-347): False for a missing file and for any error
load_cookies(file) ==
    IF file.kind # "json" THEN Absent
    ELSE IF NormalizeRaises(file.jar) THEN Absent
    ELSE [absent |-> FALSE, jar |-> normalize_cookies(file.jar)]

HasCookies_Always(c) == TRUE

\* `if cookies:` (line 392): False and the empty list are both falsy
HasCookies(c) == ~c.absent /\ c.jar # <<>>

(***************************************************************************)
(* robust_navigation (lines 87-113), one page.goto per step.               *)
(***************************************************************************)
NumStrategies == 3     \* the strategies list, lines 89-93
MaxRetries == 3        \* max_retries, line 87

\* what one page.goto does: completes, times out, or raises something else
GotoOutcomes == {"ok", "timeout", "error"}

robust_navigation_step_AbortOnError(attempt, i, outcome) ==
    IF outcome = "ok" THEN [result |-> "true", attempt |-> attempt, strat |-> i]
    ELSE IF outcome = "error" THEN [result |-> "false", attempt |-> attempt, strat |-> i]
    ELSE IF i < NumStrategies - 1
         THEN [result |-> "running", attempt |-> attempt, strat |-> i + 1]
         ELSE IF attempt < MaxRetries - 1
              THEN [result |-> "running", attempt |-> attempt + 1, strat |-> 0]
              ELSE [result |-> "false", attempt |-> attempt, strat |-> i]

\* lines 95-113: return True at the first goto that completes; both except
\* clauses continue with the next strategy, then the next attempt
robust_navigation_step(attempt, i, outcome) ==
    IF outcome = "ok" THEN [result |-> "true", attempt |-> attempt, strat |-> i]
    ELSE IF i < NumStrategies - 1
         THEN [result |-> "running", attempt |-> attempt, strat |-> i + 1]
         ELSE IF attempt < MaxRetries - 1
              THEN [result |-> "running", attempt |-> attempt + 1, strat |-> 0]
              ELSE [result |-> "false", attempt |-> attempt, strat |-> i]

\* the call robust_navigation(page, url)
NavBegin(url) ==
    /\ navUrl' = url
    /\ navAttempt' = 0
    /\ navStrat' = 0
    /\ navLog' = <<>>
    /\ navResult' = "running"

\* the caller has read the result
NavEnd ==
    /\ navUrl' = "none"
    /\ navAttempt' = 0
    /\ navStrat' = 0
    /\ navLog' = <<>>
    /\ navResult' = "idle"

NavDone == navResult \in {"true", "false", "raised"}

robust_navigation ==
    /\ navResult = "running"
    /\ \E outcome \in GotoOutcomes :
        LET step == robust_navigation_step(navAttempt, navStrat, outcome)
        IN  /\ navLog' = Append(navLog, [attempt |-> navAttempt, strategy |-> navStrat,
                                          outcome |-> outcome])
            /\ navResult' = step.result
            /\ navAttempt' = step.attempt
            /\ navStrat' = step.strat
    /\ UNCHANGED <<navUrl, credVars, loopVars, histVars, runVars, loginVars>>

(***************************************************************************)
(* test_authentication (lines 349-372).                                    *)
(***************************************************************************)
\* what locator(...).count() > 0 gives: true, false, or an exception
Presence == {"present", "absent", "raise"}

\* what the page shows when test_authentication looks at it
AuthObs ==
    [switcher : Presence, primaryNav : Presence, homeTimeline : Presence,
     password : Presence, urlLogin : BOOLEAN]

\* lines 358-361: the indicators in order; the first one present returns True,
\* one that raises lands in the except clause (False); lines 363-368 only
\* return False
test_authentication(obs) ==
    LET ind == <<obs.switcher, obs.primaryNav, obs.homeTimeline>>
        hits == {i \in 1..Len(ind) : ind[i] # "absent"}
    IN  /\ hits # {}
        /\ ind[CHOOSE i \in hits : \A k \in hits : i <= k] = "present"

(***************************************************************************)
(* scrape_tweets (lines 374-538).                                          *)
(***************************************************************************)
\* `return []` inside the try block (lines 397, 406, 413, 421)
ReturnEmpty ==
    /\ spc' = "close"
    /\ exitKind' = "return_empty"

\* an exception reaching `except Exception` (lines 525-526)
Caught ==
    /\ spc' = "close"
    /\ exitKind' = "fallthrough"

\* lines 389-397: load the credentials and apply them, or return []
LoadCookies ==
    /\ spc = "start"
    /\ cookies' = load_cookies(cookieFile)
    /\ IF HasCookies(cookies')
       THEN \E added \in BOOLEAN :
               IF added
               THEN /\ contextCookies' = cookies'.jar
                    /\ spc' = "new_page"
                    /\ UNCHANGED <<exitKind, halt>>
               ELSE /\ Caught
                    /\ halt' = "error"
                    /\ UNCHANGED contextCookies
       ELSE /\ ReturnEmpty
            /\ UNCHANGED <<contextCookies, halt>>
    /\ UNCHANGED <<cookieFile, renorm, navVars, loopVars, max_scrolls, feed, page, mainVars, loginVars, browser, closes, auth,
                   retval, outputFile, accepted, zeroRun, noNewRun, stallRun, wheels, resolves, last, probe>>

\* lines 399-404: open the page and start navigating to the landing page
NewPage ==
    /\ spc = "new_page"
    /\ \E opened \in BOOLEAN :
        IF opened
        THEN /\ NavBegin("home")
             /\ spc' = "nav_home"
             /\ UNCHANGED <<exitKind, halt>>
        ELSE /\ Caught
             /\ halt' = "error"
             /\ UNCHANGED navVars
    /\ UNCHANGED <<credVars, loopVars, max_scrolls, feed, page, mainVars, loginVars, browser, closes, auth, retval, outputFile,
                   accepted, zeroRun, noNewRun, stallRun, wheels, resolves, last, probe>>

\* lines 404-408: the landing-page navigation has returned
AfterNavHome ==
    /\ spc = "nav_home"
    /\ NavDone
    /\ NavEnd
    /\ IF navResult = "true"
       THEN spc' = "test_auth" /\ UNCHANGED <<exitKind, halt>>
       ELSE IF navResult = "false"
            THEN ReturnEmpty /\ UNCHANGED halt
            ELSE Caught /\ halt' = "error"
    /\ UNCHANGED <<credVars, loopVars, max_scrolls, feed, page, mainVars, loginVars, browser, closes, auth, retval, outputFile,
                   accepted, zeroRun, noNewRun, stallRun, wheels, resolves, last, probe>>

ProceedWhenAuth_Always(ok) == TRUE

\* line 410: `if not self.test_authentication(page)` guards the return []
ProceedWhenAuth(ok) == ok

\* lines 410-419: the liveness check, then start navigating to the search page
TestAuthentication ==
    /\ spc = "test_auth"
    /\ \E obs \in AuthObs :
        /\ auth' = IF test_authentication(obs) THEN "true" ELSE "false"
        /\ IF ProceedWhenAuth(test_authentication(obs))
           THEN /\ NavBegin("search")
                /\ spc' = "nav_search"
                /\ UNCHANGED exitKind
           ELSE /\ ReturnEmpty
                /\ UNCHANGED navVars
    /\ UNCHANGED <<credVars, loopVars, histVars, max_scrolls, feed, page, mainVars, loginVars, browser, closes, retval, outputFile>>

\* lines 419-428: the search navigation has returned; the loop's state is set up
AfterNavSearch ==
    /\ spc = "nav_search"
    /\ NavDone
    /\ NavEnd
    /\ IF navResult = "true"
       THEN /\ spc' = "scroll"
            /\ seen_tweets' = {}
            /\ consecutive_no_new_tweets' = 0
            /\ scroll_count' = 0
            /\ UNCHANGED <<exitKind, halt>>
       ELSE /\ IF navResult = "false"
               THEN ReturnEmpty /\ UNCHANGED halt
               ELSE Caught /\ halt' = "error"
            /\ UNCHANGED <<seen_tweets, consecutive_no_new_tweets, scroll_count>>
    /\ UNCHANGED <<credVars, all_data, current_count, article_i, new_tweets_count,
                   max_scrolls, feed, page, mainVars, loginVars, browser, closes, auth, retval, outputFile,
                   accepted, zeroRun, noNewRun, stallRun, wheels, resolves, last, probe>>

(***************************************************************************)
(* Tweet texts, the dedup key and the items.                               *)
(***************************************************************************)
MinTextLen == 10       \* line 473

Rep(c, n) == [k \in 1..n |-> c]

\* " ".join(tweet_texts)
RECURSIVE Join(_)
Join(frags) ==
    IF frags = <<>> THEN <<>>
    ELSE IF Len(frags) = 1 THEN frags[1]
    ELSE frags[1] \o <<" ">> \o Join(Tail(frags))

\* str.strip()
RECURSIVE Strip(_)
Strip(s) ==
    IF s = <<>> THEN s
    ELSE IF Head(s) = " " THEN Strip(Tail(s))
    ELSE IF s[Len(s)] = " " THEN Strip(SubSeq(s, 1, Len(s) - 1))
    ELSE s

\* line 471
TweetText(tweet_texts) ==
    IF tweet_texts # <<>> THEN Strip(Join(tweet_texts)) ELSE <<>>

Qualifies_OffByOne(tweet_text) ==
    ~(tweet_text = <<>> \/ Len(tweet_text) < MinTextLen - 1)

\* line 473, negated: the text is kept
Qualifies(tweet_text) ==
    ~(tweet_text = <<>> \/ Len(tweet_text) < MinTextLen)

CharCode(c) ==
    CASE c = "a" -> 1
      [] c = "b" -> 2
      [] OTHER -> 3

\* hash(tweet_text) (line 477): a function of the text that is not injective;
\* here the sum of the character codes, so that anagrams collide
RECURSIVE Hash(_)
Hash(s) ==
    IF s = <<>> THEN 0 ELSE CharCode(Head(s)) + Hash(Tail(s))

IsDuplicate_Never(tweet_hash, seen) == FALSE

\* line 478
IsDuplicate(tweet_hash, seen) == tweet_hash \in seen

\* what article.locator("div[lang]").all_text_contents() may give
ArticleBodies ==
    {<<>>,
     <<(<<" ", " ">>)>>,
     <<Rep("a", 9)>>,
     <<Rep("a", 10)>>,
     <<Rep("a", 5), Rep("b", 5)>>,
     <<(<<" ">> \o Rep("a", 5) \o <<" ">> \o Rep("b", 5) \o <<" ">>)>>,
     <<Rep("b", 5), Rep("a", 5)>>}

\* the texts line 471 computes from them
RenderedTexts == {TweetText(body) : body \in ArticleBodies}

\* a metadata read gives a value, gives nothing, or raises (lines 485-498)
FieldOutcomes == {"value", "empty", "raise"}

\* the three reads of one article (username, handle, timestamp): all give a
\* value, exactly one gives nothing or raises, or all three raise
MetaOutcomes ==
    {m \in FieldOutcomes \X FieldOutcomes \X FieldOutcomes :
        \/ Cardinality({k \in 1..3 : m[k] # "value"}) <= 1
        \/ \A k \in 1..3 : m[k] = "raise"}

\* `... or "N/A"` and the bare except around it
FieldValue(outcome, v) == IF outcome = "value" THEN v ELSE "N/A"

TweetData_AllOrNothing(text, u, h, ts) ==
    LET ok == u = "value" /\ h = "value" /\ ts = "value"
    IN  [username |-> IF ok THEN "name" ELSE "N/A",
         handle |-> IF ok THEN "/handle" ELSE "N/A",
         text |-> text,
         timestamp |-> IF ok THEN "2024-01-01T00:00:00.000Z" ELSE "N/A",
         scraped_at |-> "now"]

\* lines 500-506
TweetData(text, u, h, ts) ==
    [username |-> FieldValue(u, "name"),
     handle |-> FieldValue(h, "/handle"),
     text |-> text,
     timestamp |-> FieldValue(ts, "2024-01-01T00:00:00.000Z"),
     scraped_at |-> "now"]

(***************************************************************************)
(* The search page as the loop reads it.                                   *)
(***************************************************************************)
\* nothing is fixed about the page: every read may give anything or raise
FreeFeed == [scripted |-> FALSE, cycles |-> <<>>]

\* one rendered container: its text fragments and how its three metadata
\* reads end
Container(body, meta) == [body |-> body, meta |-> meta]

AllValues == <<"value", "value", "value">>

\* three cycles: five containers never seen before; five containers of which
\* the third and the fifth are new and the others were rendered in cycle one;
\* no container at all
ThreeCycleFeed ==
    [scripted |-> TRUE,
     cycles |->
        << <<Container(<<Rep("a", 10)>>, AllValues),
             Container(<<Rep("a", 11)>>, AllValues),
             Container(<<Rep("a", 12)>>, <<"value", "value", "raise">>),
             Container(<<Rep("a", 7), Rep("a", 7)>>, AllValues),
             Container(<<Rep("a", 14)>>, AllValues)>>,
           <<Container(<<Rep("a", 10)>>, AllValues),
             Container(<<Rep("a", 11)>>, AllValues),
             Container(<<Rep("a", 15)>>, AllValues),
             Container(<<Rep("a", 12)>>, AllValues),
             Container(<<Rep("a", 16)>>, <<"empty", "value", "value">>)>>,
           <<>> >>]

Feeds == {FreeFeed, ThreeCycleFeed}

\* the containers a scripted page shows in a cycle (1-based); none once the
\* script is over
Rendered(cycle) ==
    IF cycle \in 1..Len(feed.cycles) THEN feed.cycles[cycle] ELSE <<>>

Sign(n) == IF n > 0 THEN 1 ELSE IF n < 0 THEN -1 ELSE 0

(***************************************************************************)
(* scrape_tweets: the scroll loop (lines 430-521).                         *)
(***************************************************************************)
ZeroStallLimit == 2    \* line 458
NumSelectors == 3      \* article_selectors, lines 438-442
NoNewStallLimit == 3   \* line 517

\* `continue` or the end of the loop body: the next scroll_count
NextCycle ==
    /\ scroll_count' = scroll_count + 1
    /\ spc' = "scroll"
    /\ UNCHANGED <<exitKind, halt>>

\* `break`
Break(why) ==
    /\ spc' = "close"
    /\ exitKind' = "fallthrough"
    /\ halt' = why
    /\ UNCHANGED scroll_count

MoreCycles_OneExtra(n, max) == n <= max

\* line 430: range(max_scrolls) has a next scroll_count
MoreCycles(n, max) == n < max

\* page.mouse.wheel (line 434) goes through or raises
WheelOutcomes == IF feed.scripted THEN {TRUE} ELSE BOOLEAN

\* lines 430-444: the next cycle starts with a scroll gesture
Scroll ==
    /\ spc = "scroll"
    /\ MoreCycles(scroll_count, max_scrolls)
    /\ wheels' = wheels + 1
    /\ probe' = "none"
    /\ \E scrolled \in WheelOutcomes :
        IF scrolled
        THEN spc' = "resolve" /\ UNCHANGED <<exitKind, halt>>
        ELSE Caught /\ halt' = "error"
    /\ UNCHANGED <<credVars, navVars, all_data, seen_tweets, consecutive_no_new_tweets,
                   scroll_count, current_count, article_i, new_tweets_count,
                   max_scrolls, feed, page, mainVars, loginVars, browser, closes, auth, retval, outputFile,
                   accepted, zeroRun, noNewRun, stallRun, resolves, last>>

\* line 430: range(max_scrolls) is exhausted (line 523 follows)
LoopExhausted ==
    /\ spc = "scroll"
    /\ ~MoreCycles(scroll_count, max_scrolls)
    /\ spc' = "close"
    /\ exitKind' = "fallthrough"
    /\ halt' = "max"
    /\ UNCHANGED <<credVars, navVars, loopVars, max_scrolls, feed, page, mainVars, loginVars, browser, closes, auth, retval,
                   outputFile, accepted, zeroRun, noNewRun, stallRun, wheels, resolves, last, probe>>

\* how the selector loop of lines 445-453 ends, given what count() read for
\* each selector (negative: it raised): "found" at the first positive count
\* (break), "raised" when every count() raised, "empty" otherwise
SelectorLoop(sel) ==
    IF \E s \in 1..Len(sel) : sel[s] > 0 THEN "found"
    ELSE IF \A s \in 1..Len(sel) : sel[s] < 0 THEN "raised"
    ELSE "empty"

\* every way the selector loop can end, over what the count() calls may read
SelectorLoopOutcomes ==
    {SelectorLoop(sel) : sel \in [1..NumSelectors -> -1..1]}

\* what the selector loop and the count() reads of lines 455 and 462 give in a
\* cycle: anything on a free page, the number of rendered containers on a
\* scripted one
CountReadings ==
    IF feed.scripted
    THEN LET n == Len(Rendered(scroll_count + 1))
         IN  {<<SelectorLoop([s \in 1..NumSelectors |-> Sign(n)]), Sign(n), n>>}
    ELSE SelectorLoopOutcomes \X (-1..1) \X (-1..MaxArticles)

\* the texts line 471 may compute for the article at hand
ArticleTexts ==
    IF feed.scripted
    THEN {TweetText(Rendered(scroll_count + 1)[article_i + 1].body)}
    ELSE RenderedTexts

\* how the metadata reads of the article at hand may end
ArticleMetas ==
    IF feed.scripted
    THEN {Rendered(scroll_count + 1)[article_i + 1].meta}
    ELSE MetaOutcomes

\* lines 445-463: resolve the containers.  `articles` is left bound to a
\* locator, and lines 455 and 462 read its count() again: each count() is a
\* fresh read of the live page.  Zero containers: the stall branch of lines
\* 455-460.
ResolveContainers ==
    /\ spc = "resolve"
    /\ resolves' = resolves + 1
    /\ \E reading \in CountReadings :
       LET loop == reading[1]
           r455 == reading[2]
           r462 == reading[3]
       IN
        /\ probe' = IF r455 > 0 /\ r462 >= 0 THEN "none" ELSE loop
        /\ IF r455 < 0
           THEN /\ Caught
                /\ halt' = "error"
                /\ UNCHANGED <<consecutive_no_new_tweets, scroll_count, current_count,
                               article_i, new_tweets_count, zeroRun, noNewRun, stallRun>>
           ELSE IF r455 = 0
           THEN /\ consecutive_no_new_tweets' = consecutive_no_new_tweets + 1
                /\ zeroRun' = zeroRun + 1
                /\ noNewRun' = 0
                /\ stallRun' = stallRun + 1
                /\ IF consecutive_no_new_tweets' >= ZeroStallLimit
                   THEN Break("zero_stall")
                   ELSE NextCycle
                /\ UNCHANGED <<current_count, article_i, new_tweets_count>>
           ELSE IF r462 < 0
           THEN /\ Caught
                /\ halt' = "error"
                /\ UNCHANGED <<consecutive_no_new_tweets, scroll_count, current_count,
                               article_i, new_tweets_count, zeroRun, noNewRun, stallRun>>
           ELSE /\ current_count' = r462
                /\ article_i' = 0
                /\ new_tweets_count' = 0
                /\ spc' = "articles"
                /\ UNCHANGED <<consecutive_no_new_tweets, scroll_count, exitKind, halt,
                               zeroRun, noNewRun, stallRun>>
    /\ UNCHANGED <<credVars, navVars, all_data, seen_tweets, max_scrolls, feed, page, mainVars, loginVars, browser, closes, auth,
                   retval, outputFile, accepted, wheels, last>>

\* lines 465-511: one article of the cycle
ProcessArticle ==
    /\ spc = "articles"
    /\ article_i < current_count
    /\ article_i' = article_i + 1
    /\ \/ \* articles.nth(i) or all_text_contents() raises: line 510
          /\ ~feed.scripted
          /\ last' = [outcome |-> "raise", text |-> <<>>, meta |-> <<>>]
          /\ UNCHANGED <<all_data, seen_tweets, new_tweets_count, accepted>>
       \/ \E tweet_text \in ArticleTexts :
            LET tweet_hash == Hash(tweet_text)
            IN  IF ~Qualifies(tweet_text)
                THEN /\ last' = [outcome |-> "noise", text |-> <<>>, meta |-> <<>>]
                     /\ UNCHANGED <<all_data, seen_tweets, new_tweets_count, accepted>>
                ELSE IF IsDuplicate(tweet_hash, seen_tweets)
                THEN /\ last' = [outcome |-> "dup", text |-> tweet_text, meta |-> <<>>]
                     /\ UNCHANGED <<all_data, seen_tweets, new_tweets_count, accepted>>
                ELSE \E m \in ArticleMetas :
                        /\ seen_tweets' = seen_tweets \cup {tweet_hash}
                        /\ new_tweets_count' = new_tweets_count + 1
                        /\ all_data' = Append(all_data, TweetData(tweet_text, m[1], m[2], m[3]))
                        /\ accepted' = Append(accepted, TweetData(tweet_text, m[1], m[2], m[3]))
                        /\ last' = [outcome |-> "new", text |-> <<>>, meta |-> m]
    /\ UNCHANGED <<credVars, navVars, consecutive_no_new_tweets, scroll_count,
                   current_count, runVars, loginVars, zeroRun, noNewRun, stallRun, halt, wheels,
                   resolves, probe>>

AfterNewItems_Keep(counter) == counter

\* line 521: consecutive_no_new_tweets = 0
AfterNewItems(counter) == 0

\* lines 513-521: the cycle's tally
EndCycle ==
    /\ spc = "articles"
    /\ article_i = current_count
    /\ zeroRun' = 0
    /\ last' = [outcome |-> "none", text |-> <<>>, meta |-> <<>>]
    /\ IF new_tweets_count = 0
       THEN /\ consecutive_no_new_tweets' = consecutive_no_new_tweets + 1
            /\ noNewRun' = noNewRun + 1
            /\ stallRun' = stallRun + 1
            /\ IF consecutive_no_new_tweets' >= NoNewStallLimit
               THEN Break("nonew_stall")
               ELSE NextCycle
       ELSE /\ consecutive_no_new_tweets' = AfterNewItems(consecutive_no_new_tweets)
            /\ noNewRun' = 0
            /\ stallRun' = 0
            /\ NextCycle
    /\ UNCHANGED <<credVars, navVars, all_data, seen_tweets, current_count, article_i,
                   new_tweets_count, max_scrolls, feed, page, mainVars, loginVars, browser, closes, auth, retval,
                   outputFile, accepted, wheels, resolves, probe>>

FinallyCloses_OnCompletionOnly(how) == how \in {"fallthrough", "true"}

\* lines 328-329, 527-528: browser.close() stands in a finally clause, which
\* runs however the try block was left: by a return, by falling off its end,
\* or through the except clause
FinallyCloses(how) == TRUE

ReturnsBeforeSave_Never(kind) == FALSE

\* a `return []` inside the try block (lines 397, 406, 413, 421) leaves the
\* function from the finally clause, before lines 530-538
ReturnsBeforeSave(kind) == kind = "return_empty"

\* lines 527-528: finally, browser.close(); a `return []` returns here
CloseBrowser ==
    /\ spc = "close"
    /\ browser' = IF FinallyCloses(exitKind) THEN "closed" ELSE browser
    /\ closes' = IF FinallyCloses(exitKind) THEN closes + 1 ELSE closes
    /\ IF ReturnsBeforeSave(exitKind)
       THEN /\ retval' = [returned |-> TRUE, items |-> <<>>]
            /\ spc' = "returned"
       ELSE /\ spc' = "save"
            /\ UNCHANGED retval
    /\ UNCHANGED <<credVars, navVars, all_data, seen_tweets, consecutive_no_new_tweets,
                   scroll_count, current_count, article_i, new_tweets_count,
                   histVars, max_scrolls, feed, page, mainVars, loginVars, exitKind, auth, outputFile>>

ReturnValue_EmptyOnError(items) == IF halt = "error" THEN <<>> ELSE items

\* line 538: return all_data
ReturnValue(items) == items

\* lines 530-538: write the output file (a failure is only reported), return
SaveResults ==
    /\ spc = "save"
    /\ \E saved \in BOOLEAN :
        outputFile' = IF saved
                      THEN [state |-> "written", writes |-> outputFile.writes + 1,
                            items |-> all_data]
                      ELSE [state |-> "failed", writes |-> outputFile.writes,
                            items |-> <<>>]
    /\ retval' = [returned |-> TRUE, items |-> ReturnValue(all_data)]
    /\ spc' = "returned"
    /\ UNCHANGED <<credVars, navVars, loopVars, histVars, max_scrolls, feed, page, mainVars, loginVars, browser, closes,
                   exitKind, auth>>

(***************************************************************************)
(* The extraction run.                                                     *)
(***************************************************************************)
\* a well-formed entry as the login run stores it, and a legacy export
StoredCookie ==
    NameValue @@ [domain |-> DefaultDomain, secure |-> TRUE, sameSite |-> "None",
                  path |-> "/", httpOnly |-> TRUE, expires |-> [w |-> 1700, f |-> 5]]

LegacyCookie ==
    NameValue @@ [domain |-> LegacyHost, secure |-> FALSE,
                  sameSite |-> "no_restriction", expirationDate |-> [w |-> 1700, f |-> 5]]

\* the credential files an extraction run may find
ScrapeFiles ==
    {[kind |-> "missing", jar |-> <<>>],
     [kind |-> "unreadable", jar |-> <<>>],
     [kind |-> "corrupt", jar |-> <<>>],
     [kind |-> "json", jar |-> <<>>],
     [kind |-> "json", jar |-> <<[value |-> "v", domain |-> CanonHost]>>],
     [kind |-> "json", jar |-> <<LegacyCookie, StoredCookie>>]}

\* no signal check has looked at the page
NoPage == [seen |-> FALSE]

\* a method called on its own, not from main
NoArgs == [skip_login |-> FALSE, username |-> FALSE, password |-> FALSE]

\* nothing done yet: all_data = [] (line 379), no cookies loaded, no navigation
InitLocals ==
    /\ cookies = Absent
    /\ contextCookies = <<>>
    /\ renorm = [done |-> FALSE, jar |-> <<>>]
    /\ resRole = "none"
    /\ resIdx = 0
    /\ resLog = <<>>
    /\ resResult = "idle"
    /\ verified = "unknown"
    /\ loginRet = "none"
    /\ loginResult = "none"
    /\ challenge = "unknown"
    /\ confirmNavs = 0
    /\ wrote = "no"
    /\ file0 = cookieFile
    /\ steps = <<>>
    /\ exitKind = "none"
    /\ auth = "unknown"
    /\ navUrl = "none"
    /\ navAttempt = 0
    /\ navStrat = 0
    /\ navLog = <<>>
    /\ navResult = "idle"
    /\ all_data = <<>>
    /\ seen_tweets = {}
    /\ consecutive_no_new_tweets = 0
    /\ scroll_count = 0
    /\ current_count = 0
    /\ article_i = 0
    /\ new_tweets_count = 0
    /\ retval = [returned |-> FALSE, items |-> <<>>]
    /\ outputFile = [state |-> "untouched", writes |-> 0, items |-> <<>>]
    /\ accepted = <<>>
    /\ zeroRun = 0
    /\ noNewRun = 0
    /\ stallRun = 0
    /\ halt = "none"
    /\ wheels = 0
    /\ resolves = 0
    /\ last = [outcome |-> "none", text |-> <<>>, meta |-> <<>>]
    /\ probe = "none"

\* a run as it enters its try block (lines 207-225, 379-387): the browser
\* launched, the context created, nothing else done yet
InitRun ==
    /\ InitLocals
    /\ browser = "open"
    /\ closes = 0
    /\ page = NoPage
    /\ mpc = "none"
    /\ args = NoArgs
    /\ exitStatus = "running"

\* the extraction run: scrape_tweets(keyword, max_scrolls)
Init ==
    /\ cookieFile \in ScrapeFiles
    /\ feed \in Feeds
    /\ max_scrolls = (IF feed.scripted THEN Len(feed.cycles) ELSE MaxScrolls)
    /\ spc = "start"
    /\ lpc = "idle"
    /\ InitRun

Next ==
    \/ LoadCookies
    \/ NewPage
    \/ robust_navigation
    \/ AfterNavHome
    \/ TestAuthentication
    \/ AfterNavSearch
    \/ Scroll
    \/ LoopExhausted
    \/ ResolveContainers
    \/ ProcessArticle
    \/ EndCycle
    \/ CloseBrowser
    \/ SaveResults

Spec == Init /\ [][Next]_vars

(***************************************************************************)
(* The credential store on its own: every raw file, loaded, applied, and   *)
(* normalized once more.                                                   *)
(***************************************************************************)
\* normalize_cookies applied to what load_cookies produced
Renormalize ==
    /\ spc # "start"
    /\ ~cookies.absent
    /\ ~renorm.done
    /\ renorm' = [done |-> TRUE, jar |-> normalize_cookies(cookies.jar)]
    /\ UNCHANGED <<cookieFile, cookies, contextCookies, navVars, loopVars, histVars,
                   runVars, loginVars>>

InitCred ==
    /\ cookieFile \in CredFiles(MaxCookies)
    /\ max_scrolls = MaxScrolls
    /\ feed = FreeFeed
    /\ spc = "start"
    /\ lpc = "idle"
    /\ InitRun

NextCred ==
    \/ LoadCookies
    \/ Renormalize

SpecCred == InitCred /\ [][NextCred]_vars

(***************************************************************************)
(* The element resolvers: wait_and_fill_input (lines 115-136) and          *)
(* click_button (lines 138-159), one selector per step.                    *)
(***************************************************************************)
NumCandidates == 3     \* every selector list of the login run, lines 244-302

\* one selector of wait_and_fill_input: wait_for times out, wait_for raises
\* something else, clear and type go through, or clear or type raises
FillOutcomes == {"timeout", "wait_error", "filled", "fill_error"}

\* one selector of click_button: wait_for times out or raises, the button is
\* clicked, is_enabled() is false, or is_enabled() or click() raises
ClickOutcomes == {"timeout", "wait_error", "clicked", "disabled", "click_error"}

wait_and_fill_input_step_StopOnTimeout(idx, outcome) ==
    IF outcome = "filled" THEN [result |-> "true", idx |-> idx]
    ELSE IF outcome = "timeout" THEN [result |-> "false", idx |-> idx]
    ELSE IF idx < NumCandidates - 1 THEN [result |-> "running", idx |-> idx + 1]
    ELSE [result |-> "false", idx |-> idx]

\* lines 117-136: return True once a field is filled; every failure moves on to
\* the next selector, and False is returned after the last one
wait_and_fill_input_step(idx, outcome) ==
    IF outcome = "filled" THEN [result |-> "true", idx |-> idx]
    ELSE IF idx < NumCandidates - 1 THEN [result |-> "running", idx |-> idx + 1]
    ELSE [result |-> "false", idx |-> idx]

\* lines 140-159: return True once a button is clicked; a disabled button and
\* every failure move on to the next selector
click_button_step(idx, outcome) ==
    IF outcome = "clicked" THEN [result |-> "true", idx |-> idx]
    ELSE IF idx < NumCandidates - 1 THEN [result |-> "running", idx |-> idx + 1]
    ELSE [result |-> "false", idx |-> idx]

\* the calls wait_and_fill_input(page, selectors, ...), click_button(page, selectors, ...)
ResBegin(role) ==
    /\ resRole' = role
    /\ resIdx' = 0
    /\ resLog' = <<>>
    /\ resResult' = "running"

\* the caller has read the result
ResEnd ==
    /\ resRole' = "none"
    /\ resIdx' = 0
    /\ resLog' = <<>>
    /\ resResult' = "idle"

ResDone == resResult \in {"true", "false"}

\* what a login action leaves alone of the extraction run
scrapeOnly == <<cookies, contextCookies, renorm, loopVars, histVars, spc, max_scrolls, feed, mainVars,
                exitKind, auth, retval, outputFile>>

wait_and_fill_input ==
    /\ resResult = "running"
    /\ resRole = "fill"
    /\ \E outcome \in FillOutcomes :
        LET step == wait_and_fill_input_step(resIdx, outcome)
        IN  /\ resLog' = Append(resLog, [idx |-> resIdx, outcome |-> outcome])
            /\ resResult' = step.result
            /\ resIdx' = step.idx
    /\ UNCHANGED <<resRole, lpc, verified, loginRet, loginResult, challenge, confirmNavs,
                   wrote, file0, steps, cookieFile, browser, closes, page, navVars, scrapeOnly>>

click_button ==
    /\ resResult = "running"
    /\ resRole = "click"
    /\ \E outcome \in ClickOutcomes :
        LET step == click_button_step(resIdx, outcome)
        IN  /\ resLog' = Append(resLog, [idx |-> resIdx, outcome |-> outcome])
            /\ resResult' = step.result
            /\ resIdx' = step.idx
    /\ UNCHANGED <<resRole, lpc, verified, loginRet, loginResult, challenge, confirmNavs,
                   wrote, file0, steps, cookieFile, browser, closes, page, navVars, scrapeOnly>>

(***************************************************************************)
(* verify_login_success (lines 161-201).                                   *)
(***************************************************************************)
\* what the page shows while verify_login_success looks at it: the markers in
\* page.url, the two controls, and how the confirmatory goto ends
VerifyObs ==
    [urlHome : BOOLEAN, urlLogin : BOOLEAN, urlFlow : BOOLEAN,
     switcher : Presence, primaryNav : Presence,
     confirmRaised : BOOLEAN, confirmHome : BOOLEAN, confirmLogin : BOOLEAN]

\* lines 171-184: the four indicators; one that raises is skipped
SuccessIndicators(obs) ==
    <<obs.urlHome,
      obs.switcher = "present",
      obs.primaryNav = "present",
      ~obs.urlLogin /\ ~obs.urlFlow>>

AnyIndicator(obs) ==
    \E k \in 1..Len(SuccessIndicators(obs)) : SuccessIndicators(obs)[k]

\* lines 186-201: the confirmatory goto and the url check after it
ConfirmByNavigation(obs) ==
    /\ ~obs.confirmRaised
    /\ obs.confirmHome
    /\ ~obs.confirmLogin

verify_login_success_AllOf(obs) ==
    IF \A k \in 1..Len(SuccessIndicators(obs)) : SuccessIndicators(obs)[k]
    THEN TRUE
    ELSE ConfirmByNavigation(obs)

verify_login_success(obs) ==
    IF AnyIndicator(obs) THEN TRUE ELSE ConfirmByNavigation(obs)

(***************************************************************************)
(* login_and_save_cookies (lines 203-329).                                 *)
(***************************************************************************)
\* `return v` inside the try block, or `except Exception` returning False
LoginReturn(v) ==
    /\ lpc' = "close"
    /\ loginRet' = v

StepOk_Always(result) == TRUE

\* `if not self.robust_navigation(...)`, `if not self.wait_and_fill_input(...)`,
\* `if not self.click_button(...)` (lines 236, 250, 261, 293, 304) guard a
\* return False
StepOk(result) == result = "true"

\* lines 227-236: open the page and start navigating to the login page
LoginNewPage ==
    /\ lpc = "start"
    /\ \E opened \in BOOLEAN :
        IF opened
        THEN /\ NavBegin("login")
             /\ lpc' = "nav_login"
             /\ UNCHANGED loginRet
        ELSE /\ LoginReturn("false")
             /\ UNCHANGED navVars
    /\ UNCHANGED <<resVars, verified, loginResult, challenge, confirmNavs, wrote, file0, steps,
                   cookieFile, browser, closes, page, scrapeOnly>>

\* lines 236-250: the navigation has returned; start filling the username
AfterNavLogin ==
    /\ lpc = "nav_login"
    /\ NavDone
    /\ NavEnd
    /\ IF StepOk(navResult)
       THEN /\ ResBegin("fill")
            /\ lpc' = "username"
            /\ UNCHANGED loginRet
       ELSE /\ LoginReturn("false")
            /\ UNCHANGED resVars
    /\ steps' = Append(steps, [step |-> "navigate", ok |-> navResult = "true"])
    /\ UNCHANGED <<verified, loginResult, challenge, confirmNavs, wrote, file0,
                   cookieFile, browser, closes, page, scrapeOnly>>

\* lines 250-261: the username is filled; start clicking Next
AfterUsername ==
    /\ lpc = "username"
    /\ ResDone
    /\ IF StepOk(resResult)
       THEN /\ ResBegin("click")
            /\ lpc' = "next"
            /\ UNCHANGED loginRet
       ELSE /\ LoginReturn("false")
            /\ ResEnd
    /\ steps' = Append(steps, [step |-> "username", ok |-> resResult = "true"])
    /\ UNCHANGED <<verified, loginResult, challenge, confirmNavs, wrote, file0,
                   cookieFile, browser, closes, page, navVars, scrapeOnly>>

\* lines 261-264: Next is clicked
AfterNext ==
    /\ lpc = "next"
    /\ ResDone
    /\ ResEnd
    /\ IF StepOk(resResult)
       THEN lpc' = "challenge" /\ UNCHANGED loginRet
       ELSE LoginReturn("false")
    /\ steps' = Append(steps, [step |-> "next", ok |-> resResult = "true"])
    /\ UNCHANGED <<verified, loginResult, challenge, confirmNavs, wrote, file0,
                   cookieFile, browser, closes, page, navVars, scrapeOnly>>

\* how lines 266-283 can go: the input never shows (wait_for times out); wait_for
\* raises something else; the input shows and is filled and submitted; the input
\* shows and clear, type or click raises a timeout; the input shows and input(),
\* clear, type or click raises something else
ChallengeOutcomes ==
    {"absent", "wait_error", "resolved", "action_timeout", "action_error"}

\* lines 282-283: `except PlaywrightTimeoutError` covers the whole block, so the
\* run goes on to the password unless another exception was raised
ChallengeContinues(outcome) == outcome \in {"absent", "resolved", "action_timeout"}

\* lines 266-293: the challenge step, then start filling the password
ChallengeCheck ==
    /\ lpc = "challenge"
    /\ \E outcome \in ChallengeOutcomes :
        /\ challenge' = outcome
        /\ IF ChallengeContinues(outcome)
           THEN /\ ResBegin("fill")
                /\ lpc' = "password"
                /\ UNCHANGED loginRet
           ELSE /\ LoginReturn("false")
                /\ UNCHANGED resVars
    /\ UNCHANGED <<verified, loginResult, confirmNavs, wrote, file0, steps,
                   cookieFile, browser, closes, page, navVars, scrapeOnly>>

\* lines 293-304: the password is filled; start clicking Log in
AfterPassword ==
    /\ lpc = "password"
    /\ ResDone
    /\ IF StepOk(resResult)
       THEN /\ ResBegin("click")
            /\ lpc' = "login_button"
            /\ UNCHANGED loginRet
       ELSE /\ LoginReturn("false")
            /\ ResEnd
    /\ steps' = Append(steps, [step |-> "password", ok |-> resResult = "true"])
    /\ UNCHANGED <<verified, loginResult, challenge, confirmNavs, wrote, file0,
                   cookieFile, browser, closes, page, navVars, scrapeOnly>>

\* lines 304-309: Log in is clicked
AfterLoginButton ==
    /\ lpc = "login_button"
    /\ ResDone
    /\ ResEnd
    /\ IF StepOk(resResult)
       THEN lpc' = "verify" /\ UNCHANGED loginRet
       ELSE LoginReturn("false")
    /\ steps' = Append(steps, [step |-> "login", ok |-> resResult = "true"])
    /\ UNCHANGED <<verified, loginResult, challenge, confirmNavs, wrote, file0,
                   cookieFile, browser, closes, page, navVars, scrapeOnly>>

SaveAllowed_Always(ok) == TRUE

\* line 311: `if not self.verify_login_success(page)` guards the return False
SaveAllowed(ok) == ok

\* lines 311-313
VerifyLogin ==
    /\ lpc = "verify"
    /\ \E obs \in VerifyObs :
        /\ page' = obs
        /\ verified' = IF verify_login_success(obs) THEN "true" ELSE "false"
        /\ confirmNavs' = IF AnyIndicator(obs) THEN confirmNavs ELSE confirmNavs + 1
        /\ IF SaveAllowed(verify_login_success(obs))
           THEN lpc' = "save" /\ UNCHANGED loginRet
           ELSE LoginReturn("false")
    /\ UNCHANGED <<resVars, loginResult, challenge, wrote, file0, steps,
                   cookieFile, browser, closes, navVars, scrapeOnly>>

\* what context.cookies() may hand over
SessionJars == {<<>>, <<StoredCookie>>}

\* how lines 316-320 can go: context.cookies() raises; open() raises and leaves
\* the file alone; open(..., "w") truncates the file and json.dump raises; or
\* the file is written
SaveOutcomes == {"cookies_error", "open_error", "dump_error", "saved"}

\* lines 315-323: capture the session's cookies and write them
SaveCookies ==
    /\ lpc = "save"
    /\ \E outcome \in SaveOutcomes, jar \in SessionJars :
        /\ cookieFile' = CASE outcome = "saved" -> [kind |-> "json", jar |-> jar]
                           [] outcome = "dump_error" -> [kind |-> "corrupt", jar |-> <<>>]
                           [] OTHER -> cookieFile
        /\ wrote' = CASE outcome = "saved" -> "ok"
                      [] outcome = "dump_error" -> "partial"
                      [] OTHER -> wrote
        /\ LoginReturn(IF outcome = "saved" THEN "true" ELSE "false")
    /\ UNCHANGED <<resVars, verified, loginResult, challenge, confirmNavs, file0, steps,
                   browser, closes, page, navVars, scrapeOnly>>

\* lines 328-329: finally, browser.close(); then the value is returned
LoginClose ==
    /\ lpc = "close"
    /\ browser' = IF FinallyCloses(loginRet) THEN "closed" ELSE browser
    /\ closes' = IF FinallyCloses(loginRet) THEN closes + 1 ELSE closes
    /\ loginResult' = loginRet
    /\ lpc' = "done"
    /\ UNCHANGED <<resVars, verified, loginRet, challenge, confirmNavs, wrote, file0, steps,
                   cookieFile, page, navVars, scrapeOnly>>

\* the credential files a login run may find
LoginFiles ==
    {[kind |-> "missing", jar |-> <<>>],
     [kind |-> "json", jar |-> <<LegacyCookie>>],
     [kind |-> "json", jar |-> <<StoredCookie>>]}

\* the login run: login_and_save_cookies(username, password)
InitLogin ==
    /\ cookieFile \in LoginFiles
    /\ max_scrolls = MaxScrolls
    /\ feed = FreeFeed
    /\ spc = "idle"
    /\ lpc = "start"
    /\ InitRun

NextLogin ==
    \/ LoginNewPage
    \/ robust_navigation
    \/ AfterNavLogin
    \/ wait_and_fill_input
    \/ click_button
    \/ AfterUsername
    \/ AfterNext
    \/ ChallengeCheck
    \/ AfterPassword
    \/ AfterLoginButton
    \/ VerifyLogin
    \/ SaveCookies
    \/ LoginClose

SpecLogin == InitLogin /\ [][NextLogin]_vars

(***************************************************************************)
(* main (lines 540-579): the process from its parsed arguments to its exit. *)
(***************************************************************************)
\* the command lines drawn: --skip-login given or not, -u and -p given (TRUE)
\* or missing or empty (FALSE)
ArgSets ==
    {a \in [skip_login : BOOLEAN, username : BOOLEAN, password : BOOLEAN] :
        a.skip_login => a.username = a.password}

\* line 556
CredentialsMissing(a) == ~a.skip_login /\ (~a.username \/ ~a.password)

\* sys.exit(1), or an exception nothing catches
ExitNonZero ==
    /\ mpc' = "exited"
    /\ exitStatus' = "nonzero"

\* lines 556-562: the argument check, and the choice between login and scrape
MainCheckArgs ==
    /\ mpc = "args"
    /\ IF CredentialsMissing(args)
       THEN ExitNonZero
       ELSE /\ mpc' = IF args.skip_login THEN "scrape_call" ELSE "login_call"
            /\ UNCHANGED exitStatus
    /\ UNCHANGED <<args, credVars, navVars, loopVars, histVars, spc, max_scrolls, feed, page,
                   browser, closes, exitKind, auth, retval, outputFile, loginVars>>

\* lines 564, 207-225: login_and_save_cookies is called; the browser is
\* launched before its try block, so a failed launch is caught by nothing
MainLogin ==
    /\ mpc = "login_call"
    /\ \E launched \in BOOLEAN :
        IF launched
        THEN /\ browser' = "open"
             /\ closes' = 0
             /\ lpc' = "start"
             /\ mpc' = "login"
             /\ UNCHANGED exitStatus
        ELSE /\ ExitNonZero
             /\ UNCHANGED <<browser, closes, lpc>>
    /\ UNCHANGED <<args, credVars, navVars, loopVars, histVars, spc, max_scrolls, feed, page,
                   exitKind, auth, retval, outputFile, resVars, verified, loginRet,
                   loginResult, challenge, confirmNavs, wrote, file0, steps>>

\* lines 564-568: login_and_save_cookies has returned
MainAfterLogin ==
    /\ mpc = "login"
    /\ lpc = "done"
    /\ IF loginResult = "true"
       THEN /\ mpc' = "scrape_call"
            /\ UNCHANGED exitStatus
       ELSE ExitNonZero
    /\ UNCHANGED <<args, credVars, navVars, loopVars, histVars, spc, max_scrolls, feed, page,
                   browser, closes, exitKind, auth, retval, outputFile, loginVars>>

\* lines 570-574, 379-387: scrape_tweets is called; its browser is launched
\* before its try block.  What is recorded of the login call other than its
\* result is that of a frame that is gone.
MainScrape ==
    /\ mpc = "scrape_call"
    /\ \E launched \in BOOLEAN :
        IF launched
        THEN /\ browser' = "open"
             /\ closes' = 0
             /\ spc' = "start"
             /\ mpc' = "scrape"
             /\ UNCHANGED exitStatus
        ELSE /\ ExitNonZero
             /\ UNCHANGED <<browser, closes, spc>>
    /\ lpc' = "idle"
    /\ verified' = "unknown"
    /\ loginRet' = "none"
    /\ challenge' = "unknown"
    /\ confirmNavs' = 0
    /\ wrote' = "no"
    /\ file0' = cookieFile
    /\ steps' = <<>>
    /\ page' = NoPage
    /\ UNCHANGED <<args, credVars, navVars, loopVars, histVars, max_scrolls, feed,
                   exitKind, auth, retval, outputFile, resVars, loginResult>>

MainExitStatus_NonZeroWhenEmpty(tweets) == IF tweets = <<>> THEN "nonzero" ELSE "zero"

\* lines 576-579: both branches only print; main returns and the process ends
\* with status 0
MainExitStatus(tweets) == "zero"

\* lines 570-579: scrape_tweets has returned
MainExit ==
    /\ mpc = "scrape"
    /\ spc = "returned"
    /\ mpc' = "exited"
    /\ exitStatus' = MainExitStatus(retval.items)
    /\ UNCHANGED <<args, credVars, navVars, loopVars, histVars, spc, max_scrolls, feed, page,
                   browser, closes, exitKind, auth, retval, outputFile, loginVars>>

\* the credential files the process may find
MainFiles ==
    {[kind |-> "missing", jar |-> <<>>],
     [kind |-> "json", jar |-> <<LegacyCookie, StoredCookie>>]}

\* the process: main() after parse_args
InitMain ==
    /\ cookieFile \in MainFiles
    /\ feed \in Feeds
    /\ max_scrolls = (IF feed.scripted THEN Len(feed.cycles) ELSE MaxScrolls)
    /\ args \in ArgSets
    /\ mpc = "args"
    /\ exitStatus = "running"
    /\ browser = "none"
    /\ closes = 0
    /\ page = NoPage
    /\ spc = "idle"
    /\ lpc = "idle"
    /\ InitLocals

NextMain ==
    \/ MainCheckArgs
    \/ MainLogin
    \/ MainAfterLogin
    \/ MainScrape
    \/ MainExit
    \/ NextLogin
    \/ Next

SpecMain == InitMain /\ [][NextMain]_vars

(***************************************************************************)
(* The two signal checks applied to one page: test_authentication (lines   *)
(* 349-372) and the indicators of verify_login_success (lines 171-184).    *)
(***************************************************************************)
\* a page as the two checks can see it: the markers in page.url and what
\* count() > 0 gives for each control they look for
PageStates ==
    [urlHome : BOOLEAN, urlLogin : BOOLEAN, urlFlow : BOOLEAN,
     switcher : Presence, primaryNav : Presence, homeTimeline : Presence,
     password : Presence]

\* what test_authentication reads of the page
AuthView(pg) ==
    [switcher |-> pg.switcher, primaryNav |-> pg.primaryNav,
     homeTimeline |-> pg.homeTimeline, password |-> pg.password,
     urlLogin |-> pg.urlLogin]

\* what the indicators of verify_login_success read of the page
VerifyView(pg) ==
    [urlHome |-> pg.urlHome, urlLogin |-> pg.urlLogin, urlFlow |-> pg.urlFlow,
     switcher |-> pg.switcher, primaryNav |-> pg.primaryNav,
     confirmRaised |-> TRUE, confirmHome |-> FALSE, confirmLogin |-> FALSE]

Verdict(ok) == IF ok THEN "true" ELSE "false"

\* test_authentication(page)
LivenessOnPage ==
    /\ spc = "signals"
    /\ auth = "unknown"
    /\ auth' = Verdict(test_authentication(AuthView(page)))
    /\ UNCHANGED <<credVars, navVars, loopVars, histVars, spc, max_scrolls, feed, page,
                   mainVars, browser, closes, exitKind, retval, outputFile, loginVars>>

\* the any-of-four check of verify_login_success(page), lines 171-184
VerifyingOnPage ==
    /\ spc = "signals"
    /\ verified = "unknown"
    /\ verified' = Verdict(AnyIndicator(VerifyView(page)))
    /\ UNCHANGED <<credVars, navVars, loopVars, histVars, runVars, lpc, resVars, loginRet,
                   loginResult, challenge, confirmNavs, wrote, file0, steps>>

InitSignals ==
    /\ cookieFile = [kind |-> "missing", jar |-> <<>>]
    /\ max_scrolls = MaxScrolls
    /\ feed = FreeFeed
    /\ page \in PageStates
    /\ browser = "open"
    /\ closes = 0
    /\ mpc = "none"
    /\ args = NoArgs
    /\ exitStatus = "running"
    /\ spc = "signals"
    /\ lpc = "idle"
    /\ InitLocals

NextSignals ==
    \/ LivenessOnPage
    \/ VerifyingOnPage

SpecSignals == InitSignals /\ [][NextSignals]_vars

(***************************************************************************)
(* Claims.                                                                 *)
(***************************************************************************)
NoEqualKeys(items) ==
    \A i \in 1..Len(items) : \A j \in 1..Len(items) :
        i # j => Hash(items[i].text) # Hash(items[j].text)

AllLongEnough(items) ==
    \A i \in 1..Len(items) : Len(items[i].text) >= MinTextLen

\* C1: whatever the cycles render, the accepted sequence, and so the sequence
\* scrape_tweets returns, holds no two items with equal dedup keys (hash of the
\* body text), and every accepted body text has length >= 10.
C1_DedupAndMinLength ==
    /\ NoEqualKeys(all_data)
    /\ AllLongEnough(all_data)
    /\ NoEqualKeys(retval.items)
    /\ AllLongEnough(retval.items)

\* C1 witness: with two items accepted, an article whose text differs from both
\* accepted texts but has the hash of one of them has just been skipped.
C1_Witness ==
    /\ Len(all_data) = 2
    /\ last.outcome = "dup"
    /\ \A i \in 1..Len(all_data) : all_data[i].text # last.text
    /\ \E i \in 1..Len(all_data) : Len(all_data[i].text) = MinTextLen

\* C2 (as claimed): a run of zero-container cycles starting at cycle k halts the
\* loop at cycle k+1 whatever came before: a zero-container halt happens after
\* exactly 2 consecutive zero-container cycles, and 2 such cycles always halt.
C2_ZeroStallHaltsAtSecond ==
    /\ (halt = "zero_stall" => zeroRun = ZeroStallLimit)
    /\ (zeroRun >= ZeroStallLimit => halt = "zero_stall")

\* C3 (as claimed): a run of cycles that resolve containers but yield nothing new,
\* starting at cycle k, halts the loop at cycle k+2 whatever came before: a
\* no-new-item halt happens after exactly 3 consecutive such cycles.
C3_NoNewStallHaltsAtThird ==
    /\ (halt = "nonew_stall" => noNewRun = NoNewStallLimit)
    /\ (noNewRun >= NoNewStallLimit => halt = "nonew_stall")

\* C4: when credentials were loaded and the liveness check on the landing page
\* fails, the run makes no scroll gesture, resolves no containers, never
\* navigates to the search page, and returns an empty sequence.
C4_StaleSessionGate ==
    auth = "false" =>
        /\ wheels = 0
        /\ resolves = 0
        /\ navUrl # "search"
        /\ spc \in {"close", "returned"}
        /\ exitKind = "return_empty"
        /\ (retval.returned => retval.items = <<>>)

\* C4 witness: credentials applied, liveness check failed, the run has returned.
C4_Witness ==
    /\ auth = "false"
    /\ contextCookies # <<>>
    /\ retval.returned
    /\ browser = "closed"

\* C7: page.goto is tried strategy by strategy within each attempt, in order;
\* robust_navigation returns true at the first goto that completes, returns false
\* only after all MaxRetries x NumStrategies gotos failed, and never lets a
\* timeout or another error of a goto reach its caller.
C7_NavigationRetries ==
    /\ \A k \in 1..Len(navLog) :
        /\ navLog[k].attempt = (k - 1) \div NumStrategies
        /\ navLog[k].strategy = (k - 1) % NumStrategies
        /\ (k < Len(navLog) => navLog[k].outcome # "ok")
    /\ (navResult = "true" <=> (navLog # <<>> /\ navLog[Len(navLog)].outcome = "ok"))
    /\ (navResult = "false" =>
            /\ Len(navLog) = MaxRetries * NumStrategies
            /\ \A k \in 1..Len(navLog) : navLog[k].outcome # "ok")
    /\ (Len(navLog) = MaxRetries * NumStrategies => navResult \in {"true", "false"})
    /\ navResult # "raised"

\* C7 witness: the navigation returned true in its second attempt, after gotos
\* that timed out and gotos that raised another error.
C7_Witness ==
    /\ navResult = "true"
    /\ Len(navLog) = NumStrategies + 2
    /\ navLog[1].outcome = "error"
    /\ navLog[2].outcome = "timeout"

\* C10: however the loop ends (max_scrolls reached, a stall threshold, an
\* exception raised inside a cycle), nothing more is scrolled or resolved and
\* scrape_tweets returns exactly the items accepted so far, in acceptance order.
C10_PartialResultsReturned ==
    /\ (halt # "none" => spc \in {"close", "save", "returned"})
    /\ wheels <= max_scrolls
    /\ (retval.returned /\ exitKind = "fallthrough" => retval.items = accepted)

\* C10 witness: an exception ended the run in its third cycle or later, with two
\* items accepted before it, and the run has returned.
C10_Witness ==
    /\ retval.returned
    /\ halt = "error"
    /\ wheels >= 3
    /\ Len(accepted) = 2

\* C8: normalizing an already normalized credential list gives the same list,
\* entry by entry: normalize_cookies(normalize_cookies(raw)) = normalize_cookies(raw).
C8_NormalizeIdempotent ==
    renorm.done =>
        /\ Len(renorm.jar) = Len(cookies.jar)
        /\ \A i \in 1..Len(cookies.jar) : renorm.jar[i] = cookies.jar[i]

\* C8 witness: a raw entry with a dot-less legacy domain, a float expirationDate
\* and no_restriction has been normalized twice.
C8_Witness ==
    /\ renorm.done
    /\ cookieFile.kind = "json"
    /\ Len(cookieFile.jar) = 1
    /\ "domain" \in DOMAIN cookieFile.jar[1]
    /\ cookieFile.jar[1]["domain"] = LegacyHost
    /\ "expirationDate" \in DOMAIN cookieFile.jar[1]
    /\ "sameSite" \in DOMAIN cookieFile.jar[1]
    /\ cookieFile.jar[1]["sameSite"] = "no_restriction"
    /\ Len(renorm.jar) = 1
    /\ renorm.jar[1].domain = DefaultDomain

\* C9: every credential applied to the browsing context has a domain that starts
\* with a dot and holds no legacy host, a sameSite among Strict, Lax, None, and
\* secure = true whenever sameSite = None.
C9_AppliedCookiesNormalized ==
    \A i \in 1..Len(contextCookies) :
        LET c == contextCookies[i]
        IN  /\ StartsWith(c.domain, Dot)
            /\ ~Contains(c.domain, LegacyHost)
            /\ c.sameSite \in {"Strict", "Lax", "None"}
            /\ (c.sameSite = "None" => c.secure = TRUE)

\* C9 witness: a file entry with secure = false, sameSite no_restriction and a
\* dot-less legacy sub-domain has been applied to the context.
C9_Witness ==
    /\ Len(contextCookies) = 1
    /\ cookieFile.kind = "json"
    /\ {"domain", "secure", "sameSite"} \subseteq DOMAIN cookieFile.jar[1]
    /\ cookieFile.jar[1]["secure"] = FALSE
    /\ cookieFile.jar[1]["sameSite"] = "no_restriction"
    /\ cookieFile.jar[1]["domain"] = LegacyHost
    /\ contextCookies[1].sameSite = "None"

\* C5 (as stated): the credential file is written only after verify_login_success
\* returned true, and every login run that returns False leaves the credential
\* file unwritten and unchanged.
C5_FileUntouchedOnFailure ==
    /\ (wrote # "no" => verified = "true")
    /\ (loginRet = "false" => wrote = "no" /\ cookieFile = file0)

\* C5 (amended): the credential file is opened for writing only after
\* verify_login_success returned true; a run that returns False leaves the file
\* unwritten and unchanged unless the write itself failed after the file was
\* opened, which happens only after verification and leaves the file truncated;
\* a run that returns True has written the file.
C5_WrittenOnlyAfterVerified ==
    /\ (wrote # "no" => verified = "true")
    /\ (verified # "true" => cookieFile = file0)
    /\ (loginRet = "false" /\ wrote # "partial" => wrote = "no" /\ cookieFile = file0)
    /\ (loginRet = "false" /\ wrote = "partial" => cookieFile.kind = "corrupt")
    /\ (loginRet = "true" => wrote = "ok" /\ cookieFile.kind = "json")

\* C5 witness: a finished run that was verified, replaced the credential file
\* with the session's cookies and returned True.
C5_Witness ==
    /\ lpc = "done"
    /\ loginResult = "true"
    /\ verified = "true"
    /\ wrote = "ok"
    /\ cookieFile # file0

Found(outcome) == outcome \in {"filled", "fill_error", "clicked", "disabled", "click_error"}

Acted(outcome) == outcome \in {"filled", "clicked"}

TriedInListOrder == \A k \in 1..Len(resLog) : resLog[k].idx = k - 1

\* C6 (as stated): candidates are tried in list order, and as soon as one
\* candidate's element is found to exist the resolution reports success with that
\* candidate and no later candidate is tried.
C6_FirstFoundWins ==
    /\ TriedInListOrder
    /\ \A k \in 1..Len(resLog) :
        Found(resLog[k].outcome) => k = Len(resLog) /\ resResult = "true"

\* C6 (amended): candidates are tried in list order; the resolution reports
\* success with the first candidate whose element exists and whose action (fill,
\* or click of an enabled button) goes through, and no later candidate is tried;
\* a candidate that times out, raises, or is a disabled button is passed over,
\* and failure is reported only after every candidate was tried.
C6_FirstActedWins ==
    /\ TriedInListOrder
    /\ \A k \in 1..Len(resLog) :
        Acted(resLog[k].outcome) => k = Len(resLog) /\ resResult = "true"
    /\ (resResult = "true" => resLog # <<>> /\ Acted(resLog[Len(resLog)].outcome))
    /\ (resResult = "false" => Len(resLog) = NumCandidates)
    /\ (resResult = "running" => resIdx = Len(resLog) /\ resIdx < NumCandidates)

\* C6 witness: of three candidates the first timed out, the second was found and
\* acted on, success was reported and the third was never tried.
C6_Witness ==
    /\ resResult = "true"
    /\ Len(resLog) = 2
    /\ resLog[1].outcome = "timeout"
    /\ Acted(resLog[2].outcome)
    /\ resIdx = 1


Sentinel == "N/A"      \* lines 486-498

\* the three metadata fields of an item, in the order they are read
MetaFields(item) == <<item.username, item.handle, item.timestamp>>

\* C11: when an article whose text qualifies and is new has just been processed,
\* it is the last item of the accepted sequence and counted as new for the cycle;
\* each of username, handle and timestamp whose read raised or gave nothing holds
\* the sentinel, and each whose read gave a value holds that value.
C11_PartialFieldResilience ==
    last.outcome = "new" =>
        /\ all_data # <<>>
        /\ accepted = all_data
        /\ new_tweets_count >= 1
        /\ LET item == all_data[Len(all_data)]
           IN  /\ Qualifies(item.text)
               /\ Hash(item.text) \in seen_tweets
               /\ \A k \in 1..3 :
                    /\ last.meta[k] # "value" => MetaFields(item)[k] = Sentinel
                    /\ last.meta[k] = "value" => MetaFields(item)[k] # Sentinel

\* C11 witness: the timestamp read of a new article raised while the username
\* and handle reads gave values; the item was accepted with only its timestamp
\* set to the sentinel.
C11_Witness ==
    /\ last.outcome = "new"
    /\ last.meta = <<"value", "value", "raise">>
    /\ all_data # <<>>
    /\ all_data[Len(all_data)].timestamp = Sentinel
    /\ all_data[Len(all_data)].username # Sentinel
    /\ all_data[Len(all_data)].handle # Sentinel
    /\ new_tweets_count = 1


\* C12: the loop performs at most max_scrolls cycles and ends once cycle
\* max_scrolls is over, whatever the stall counter holds; on the three-cycle
\* page (five new containers; five containers, two of them new; no container)
\* with max_scrolls = 3 a run that entered the loop ends by exhaustion after
\* cycle 3 with the stall counter at 1 and returns exactly 7 items with
\* pairwise different keys.
C12_AtMostMaxCycles ==
    /\ wheels <= max_scrolls
    /\ resolves <= wheels
    /\ scroll_count <= max_scrolls
    /\ (halt = "max" => scroll_count = max_scrolls /\ wheels = max_scrolls)
    /\ (spc \in {"scroll", "resolve", "articles"} /\ scroll_count = max_scrolls
            => spc = "scroll" /\ halt = "none")
    /\ (feed = ThreeCycleFeed /\ wheels > 0 => halt \in {"none", "max"})
    /\ (feed = ThreeCycleFeed /\ wheels > 0 /\ retval.returned =>
            /\ max_scrolls = 3
            /\ wheels = 3
            /\ halt = "max"
            /\ consecutive_no_new_tweets = 1
            /\ consecutive_no_new_tweets < ZeroStallLimit
            /\ zeroRun = 1
            /\ Len(retval.items) = 7
            /\ NoEqualKeys(retval.items))

\* C12 witness: the run over the three-cycle page has returned after its third
\* cycle, a zero-container cycle that left the stall counter at 1, with 7 items.
C12_Witness ==
    /\ feed = ThreeCycleFeed
    /\ max_scrolls = 3
    /\ retval.returned
    /\ halt = "max"
    /\ wheels = 3
    /\ zeroRun = 1
    /\ consecutive_no_new_tweets = 1
    /\ Len(retval.items) = 7


\* C13: when --skip-login is not given and the username or the password is
\* missing, the process exits non-zero with no browser launched and neither
\* method called; when login_and_save_cookies returned False, the process exits
\* non-zero and scrape_tweets is never called; once scrape_tweets has returned,
\* the process exits with status 0, also when no item was returned.
C13_ExitStatus ==
    /\ (CredentialsMissing(args) =>
            /\ mpc \in {"args", "exited"}
            /\ browser = "none"
            /\ lpc = "idle"
            /\ spc = "idle"
            /\ (mpc = "exited" => exitStatus = "nonzero"))
    /\ (loginResult = "false" =>
            /\ mpc \in {"login", "exited"}
            /\ spc = "idle"
            /\ ~retval.returned
            /\ (mpc = "exited" => exitStatus = "nonzero"))
    /\ (mpc = "exited" /\ spc = "returned" => exitStatus = "zero")
    /\ (exitStatus = "zero" => mpc = "exited" /\ spc = "returned" /\ retval.returned)
    /\ (spc # "idle" /\ ~args.skip_login => loginResult = "true")
    /\ (args.skip_login => lpc = "idle" /\ loginResult = "none")

\* C13 witness: after a login that succeeded, the extraction passed the liveness
\* check, scrolled, found no item and returned; the process has exited with
\* status 0.
C13_Witness ==
    /\ mpc = "exited"
    /\ exitStatus = "zero"
    /\ ~args.skip_login
    /\ loginResult = "true"
    /\ auth = "true"
    /\ wheels > 0
    /\ retval.returned
    /\ retval.items = <<>>


\* what a run on a valid session that accepted no item hands to its caller:
\* line 538 with all_data still []
ZeroItemsResult == ReturnValue(<<>>)

\* C14: the value scrape_tweets returns after a failed liveness check is never
\* the value it returns after a run on a valid session that found no item.
C14_StaleSessionDistinguished ==
    /\ (retval.returned /\ auth = "true" /\ accepted = <<>> =>
            retval.items = ZeroItemsResult)
    /\ (retval.returned /\ auth = "false" => retval.items # ZeroItemsResult)


\* the page shows each control as present or absent and test_authentication's
\* own third indicator and the password field are absent
PlainPage ==
    /\ page.switcher # "raise"
    /\ page.primaryNav # "raise"
    /\ page.homeTimeline = "absent"
    /\ page.password = "absent"

\* C15: on every page state (url markers, account switcher and primary
\* navigation present or absent) test_authentication accepts exactly when the
\* any-of-four check of verify_login_success accepts.
C15_SameSignalSet ==
    auth # "unknown" /\ verified # "unknown" /\ PlainPage => auth = verified

\* the four signals as the page shows them; a read that raised does not hold
SignalHolds(pg) ==
    \/ pg.urlHome
    \/ pg.switcher = "present"
    \/ pg.primaryNav = "present"
    \/ ~pg.urlLogin /\ ~pg.urlFlow

\* the confirmatory navigation ended on the landing path, free of the login marker
ConfirmedOnLanding(pg) == ~pg.confirmRaised /\ pg.confirmHome /\ ~pg.confirmLogin

\* C16: once verify_login_success has looked at the page: if one of the four
\* signals held it returned True without the confirmatory navigation; the
\* confirmatory navigation was performed at most once, and exactly when no
\* signal held; it returned False exactly when no signal held and the
\* confirmatory navigation raised or did not end on the landing path free of
\* the login marker.
C16_Verifying ==
    /\ confirmNavs <= 1
    /\ (page = NoPage => verified = "unknown" /\ confirmNavs = 0)
    /\ (page # NoPage =>
            /\ verified \in {"true", "false"}
            /\ (SignalHolds(page) => verified = "true" /\ confirmNavs = 0)
            /\ (confirmNavs = 1 <=> ~SignalHolds(page))
            /\ (verified = "false" <=> ~SignalHolds(page) /\ ~ConfirmedOnLanding(page))
            /\ (verified = "false" => loginRet = "false" /\ wrote = "no"))

\* C16 witness: no signal held (the account switcher read raised, the url kept
\* its login marker), the one confirmatory navigation ended on the landing
\* path, and verification succeeded.
C16_Witness ==
    /\ page # NoPage
    /\ ~SignalHolds(page)
    /\ page.switcher = "raise"
    /\ ConfirmedOnLanding(page)
    /\ confirmNavs = 1
    /\ verified = "true"
    /\ lpc = "save"


\* C17: password entry is begun only after the challenge input stayed absent
\* for the whole wait, or after a detected challenge was filled with the
\* operator's value and submitted.
C17_ChallengeResolvedBeforePassword ==
    lpc \in {"password", "login_button", "verify", "save"} =>
        challenge \in {"absent", "resolved"}


\* the five steps in the order login_and_save_cookies takes them
LoginSteps == <<"navigate", "username", "next", "password", "login">>

AllStepsOk == Len(steps) = Len(LoginSteps) /\ \A k \in 1..Len(steps) : steps[k].ok

\* C18: the login steps are taken in order, and a step that fails is the last
\* thing the run does: it returns False, with no later field entry, click,
\* challenge check after a failed Next, verification or write of the credential
\* file; verification and the write happen only after all five steps succeeded.
C18_StepFailureTerminal ==
    /\ Len(steps) <= Len(LoginSteps)
    /\ \A k \in 1..Len(steps) :
        /\ steps[k].step = LoginSteps[k]
        /\ ~steps[k].ok =>
            /\ k = Len(steps)
            /\ lpc \in {"close", "done"}
            /\ loginRet = "false"
            /\ resResult = "idle"
            /\ navResult = "idle"
            /\ verified = "unknown"
            /\ wrote = "no"
            /\ cookieFile = file0
            /\ (k <= 3 => challenge = "unknown")
    /\ (verified # "unknown" \/ wrote # "no" \/ lpc \in {"verify", "save"} => AllStepsOk)
    /\ (challenge # "unknown" => Len(steps) >= 3)
    /\ (loginResult = "true" => AllStepsOk)

\* C18 witness: navigation and the username went through, no candidate of the
\* Next button could be clicked; the run has returned False without checking
\* for a challenge, asking for the password or verifying.
C18_Witness ==
    /\ Len(steps) = 3
    /\ steps[1].ok
    /\ steps[2].ok
    /\ ~steps[3].ok
    /\ lpc = "done"
    /\ loginResult = "false"
    /\ challenge = "unknown"
    /\ verified = "unknown"
    /\ browser = "closed"


\* C19: a cycle whose selector loop resolved no element, whether every count()
\* read 0 or every count() raised, is counted as a stagnant cycle; the loop goes
\* on to the next cycle or ends by the stall threshold or by exhaustion, never
\* by the error.
C19_UnresolvedCycleIsStagnant ==
    probe \in {"empty", "raised"} =>
        /\ halt \in {"none", "zero_stall", "max"}
        /\ zeroRun >= 1


\* C20: the no-progress counter is the number of cycles in a row, up to now,
\* that accepted nothing: a cycle that accepted an item leaves it at zero; the
\* loop halts for stagnation only at the end of a cycle that accepted nothing,
\* and only when at least the threshold of such cycles has passed since the last
\* cycle that accepted an item.
C20_NewItemResetsCounter ==
    /\ consecutive_no_new_tweets = stallRun
    /\ (zeroRun = 0 /\ noNewRun = 0 => consecutive_no_new_tweets = 0)
    /\ (halt = "nonew_stall" =>
            /\ new_tweets_count = 0
            /\ noNewRun >= 1
            /\ stallRun >= NoNewStallLimit)
    /\ (halt = "zero_stall" =>
            /\ zeroRun >= 1
            /\ stallRun >= ZeroStallLimit)
    /\ (spc = "articles" /\ new_tweets_count > 0 => halt = "none")

\* C20 witness: four cycles; the first accepted nothing, the second accepted the
\* run's only item and reset the counter, the third and the fourth accepted
\* nothing, and the loop halted on the counter reaching 2 again.
C20_Witness ==
    /\ halt = "zero_stall"
    /\ wheels = 4
    /\ Len(accepted) = 1
    /\ stallRun = 2
    /\ consecutive_no_new_tweets = 2


\* the credential file is missing, cannot be read, is not JSON, or holds an
\* entry without a name or a value
Unloadable(file) ==
    \/ file.kind \in {"missing", "unreadable", "corrupt"}
    \/ \E i \in 1..Len(file.jar) : ~({"name", "value"} \subseteq DOMAIN file.jar[i])

\* C21: when the credential file cannot be loaded, load_cookies gives absent
\* and nothing is raised; scrape_tweets applies no cookie, opens no page, never
\* navigates and never scrolls, and returns the empty list.
C21_LoadFailureIsSoft ==
    Unloadable(cookieFile) =>
        /\ cookies = Absent
        /\ contextCookies = <<>>
        /\ spc \in {"start", "close", "returned"}
        /\ halt = "none"
        /\ exitKind \in {"none", "return_empty"}
        /\ navResult = "idle"
        /\ navLog = <<>>
        /\ auth = "unknown"
        /\ wheels = 0
        /\ resolves = 0
        /\ (spc # "start" => exitKind = "return_empty")
        /\ (retval.returned => retval.items = <<>> /\ browser = "closed")

\* C21 witness: the file is JSON with an entry that has no name; the run has
\* returned the empty list with no cookie applied.
C21_Witness ==
    /\ cookieFile.kind = "json"
    /\ cookieFile.jar # <<>>
    /\ Unloadable(cookieFile)
    /\ cookies = Absent
    /\ contextCookies = <<>>
    /\ retval.returned
    /\ retval.items = <<>>


\* C22 (as stated): a run that returns before the scroll loop leaves the output
\* file unwritten; every run that entered the scroll loop has, once returned,
\* written the output file exactly once, after the browser was closed, with
\* exactly the returned items.
C22_OutputWrittenOnce ==
    /\ (exitKind = "return_empty" =>
            outputFile.state = "untouched" /\ outputFile.writes = 0)
    /\ outputFile.writes <= 1
    /\ (outputFile.state # "untouched" => browser = "closed")
    /\ (retval.returned /\ wheels > 0 =>
            /\ outputFile.state = "written"
            /\ outputFile.writes = 1
            /\ outputFile.items = retval.items)

\* C22 (amended): a run that returns [] before the scroll loop leaves the
\* output file untouched; every other run, whether it entered the scroll loop or
\* an exception ended it before the loop, attempts the write exactly once, at
\* run end after the browser was closed; a write that goes through holds
\* exactly the returned items, and a write that fails is only reported: the
\* items are returned all the same.
C22_OutputWriteAttemptedOnce ==
    /\ (exitKind = "return_empty" =>
            outputFile.state = "untouched" /\ outputFile.writes = 0)
    /\ outputFile.writes <= 1
    /\ (wheels > 0 => exitKind # "return_empty")
    /\ (outputFile.state # "untouched" =>
            /\ browser = "closed"
            /\ retval.returned
            /\ exitKind = "fallthrough")
    /\ (retval.returned /\ exitKind = "fallthrough" =>
            /\ outputFile.state \in {"written", "failed"}
            /\ retval.items = all_data)
    /\ (outputFile.state = "written" =>
            outputFile.writes = 1 /\ outputFile.items = retval.items)
    /\ (outputFile.state = "failed" => outputFile.writes = 0)

\* C22 witness: a run that scrolled and accepted an item has returned; the
\* browser is closed and the output file, written once, holds the returned items.
C22_Witness ==
    /\ wheels > 0
    /\ retval.returned
    /\ retval.items # <<>>
    /\ browser = "closed"
    /\ outputFile.state = "written"
    /\ outputFile.writes = 1
    /\ outputFile.items = retval.items


\* what the page actions of a run leave behind: navigations, resolves, fills
\* and clicks, scrolls, container reads, cookies applied to or read from the
\* context, signal checks
PageActionTrace ==
    <<navVars, resVars, contextCookies, auth, wheels, resolves, last, probe,
      page, verified, challenge, confirmNavs, steps, wrote>>

\* the run that was started is over: the login call has returned, or the
\* extraction run has left its with-block
RunOver == lpc = "done" \/ spc \in {"save", "returned"}

ClosedOnceWhenOver ==
    /\ closes \in {0, 1}
    /\ (browser = "closed" <=> closes = 1)
    /\ (browser \in {"none", "open"} => closes = 0)
    /\ (RunOver => browser = "closed" /\ closes = 1)
    /\ (lpc \notin {"idle", "done"} => browser = "open")
    /\ (spc \notin {"idle", "save", "returned"} => browser = "open")

NoPageActionWhenClosed ==
    (browser = "closed" /\ mpc' = mpc) => UNCHANGED PageActionTrace

\* C23: once a login or extraction run has its browsing context, the browser
\* is closed exactly once however the run ends (success, early failure return,
\* raised error): it is open at every position inside the try block and closed,
\* with one close call made, once the run is over; and no step taken by a run
\* whose browser is closed is a page action.
C23_ClosedExactlyOnce ==
    []ClosedOnceWhenOver /\ [][NoPageActionWhenClosed]_vars

\* C23 witness: after a login run that succeeded and closed its browser, the
\* extraction run launched its own, entered its scroll loop, was ended by a raised error and
\* is over, its own browser closed by one close call.
C23_Witness ==
    /\ loginResult = "true"
    /\ mpc = "scrape"
    /\ spc = "returned"
    /\ wheels > 0
    /\ halt = "error"
    /\ browser = "closed"
    /\ closes = 1

====
